---- MODULE Spec2Model ----
(***************************************************************************)
(* Model of the data engineering project analyzer: the pattern catalog    *)
(* loader, the file classifier, the connector detector, the import and    *)
(* SQL object extractors (src/connector_identifier.py), the text reader   *)
(* (src/utils/file_utils.py) and the scan loop with its project-level     *)
(* reduction (src/metadata_scanner.py).                                   *)
(*                                                                         *)
(* A text is a sequence of code points.  A code point is written as the   *)
(* one-character string it is, except four that are written by name:      *)
(* "U+0060" (GRAVE ACCENT, the backtick, which a TLA+ string cannot hold), *)
(* "U+0130" (LATIN CAPITAL LETTER I WITH DOT ABOVE), "U+0131" (LATIN SMALL *)
(* LETTER DOTLESS I) and "U+0307" (COMBINING DOT ABOVE).                   *)
(***************************************************************************)
EXTENDS Integers, Sequences, FiniteSets, TLC

VARIABLES
    pc,                   \* where the program is
    parts,                \* the pieces the input text was put together from
    doc,                  \* what is found at config_path
    config,               \* ConnectorIdentifier.config
    connectors,           \* ConnectorIdentifier.connectors
    file_types,           \* ConnectorIdentifier.file_types
    file_info,            \* argument of identify_file_type / analyze_file
    content,              \* the text handed to the function under analysis
    file_type,            \* result of identify_file_type
    detected,             \* result of identify_connectors
    sql_objects,          \* result of extract_sql_objects
    files,                \* scan(): the walker's file records
    idx,                  \* scan(): number of files processed so far
    analyzed_files,       \* scan(): the per-file records
    connector_summary,    \* scan(): accumulator
    import_summary,       \* scan(): accumulator
    sql_objects_summary,  \* scan(): accumulator
    metadata              \* scan(): the returned summary

vars == <<pc, parts, doc, config, connectors, file_types, file_info, content,
          file_type, detected, sql_objects, files, idx, analyzed_files,
          connector_summary, import_summary, sql_objects_summary, metadata>>

catalogVars == <<doc, config, connectors, file_types>>
scanVars == <<files, idx, analyzed_files, connector_summary, import_summary,
              sql_objects_summary, metadata>>

(***************************************************************************)
(* Bounds of the model.                                                    *)
(***************************************************************************)
MaxSegs == 3       \* dot-separated segments of a generated identifier
MaxLen == 4        \* length of the texts given to identify_connectors
MaxFiles == 3      \* files the walker discovers in one scan

None == "None"

(***************************************************************************)
(* Python str helpers.                                                     *)
(***************************************************************************)
Chars(s) == [i \in 1..Len(s) |-> SubSeq(s, i, i)]

RECURSIVE Concat(_)
Concat(ss) ==
    IF ss = <<>> THEN <<>>
    ELSE IF Len(ss) = 1 THEN ss[1]
    ELSE LET h == Len(ss) \div 2
         IN Concat(SubSeq(ss, 1, h)) \o Concat(SubSeq(ss, h + 1, Len(ss)))

RECURSIVE Join(_, _)
Join(sep, ss) ==
    IF ss = <<>> THEN <<>>
    ELSE IF Len(ss) = 1 THEN ss[1]
    ELSE ss[1] \o sep \o Join(sep, Tail(ss))

SeqToSet(s) == {s[i] : i \in 1..Len(s)}

LowerAlpha == Chars("abcdefghijklmnopqrstuvwxyz")
UpperAlpha == Chars("ABCDEFGHIJKLMNOPQRSTUVWXYZ")
Digits == Chars("0123456789")

LowerSet == SeqToSet(LowerAlpha)
UpperSet == SeqToSet(UpperAlpha)
DigitSet == SeqToSet(Digits)

IndexOf(c, alpha) == CHOOSE i \in 1..Len(alpha) : alpha[i] = c

\* str.upper() of one code point (U+0130 and U+0307 are their own upper
\* case, U+0131 upper-cases to "I")
upperChar(c) ==
    IF c \in LowerSet THEN <<UpperAlpha[IndexOf(c, LowerAlpha)]>>
    ELSE IF c = "U+0131" THEN <<"I">>
    ELSE <<c>>

\* str.lower() of one code point (U+0130 lower-cases to "i" + U+0307, U+0131
\* is its own lower case)
lowerChar(c) ==
    IF c \in UpperSet THEN <<LowerAlpha[IndexOf(c, UpperAlpha)]>>
    ELSE IF c = "U+0130" THEN <<"i", "U+0307">>
    ELSE <<c>>

upper(s) == Concat([i \in 1..Len(s) |-> upperChar(s[i])])
lower(s) == Concat([i \in 1..Len(s) |-> lowerChar(s[i])])

\* s.count(c) for a single character c
count(s, c) == Cardinality({i \in 1..Len(s) : s[i] = c})

\* sub in s, for str operands
contains(sub, s) ==
    \E i \in 1..(Len(s) - Len(sub) + 1) : SubSeq(s, i, i + Len(sub) - 1) = sub

\* s.strip(chars)
RECURSIVE lstrip(_, _)
lstrip(s, cs) ==
    IF s # <<>> /\ Head(s) \in cs THEN lstrip(Tail(s), cs) ELSE s

RECURSIVE rstrip(_, _)
rstrip(s, cs) ==
    IF s # <<>> /\ s[Len(s)] \in cs THEN rstrip(SubSeq(s, 1, Len(s) - 1), cs)
    ELSE s

strip(s, cs) == rstrip(lstrip(s, cs), cs)

\* s.split('\n')
RECURSIVE split(_, _)
split(s, sep) ==
    IF \E i \in 1..Len(s) : s[i] = sep
    THEN LET i == CHOOSE j \in 1..Len(s) :
                      s[j] = sep /\ \A k \in 1..(j - 1) : s[k] # sep
         IN <<SubSeq(s, 1, i - 1)>> \o split(SubSeq(s, i + 1, Len(s)), sep)
    ELSE <<s>>

\* ord(c) of the code points an extracted name or an import can hold
Ord(c) ==
    IF c \in DigitSet THEN 47 + IndexOf(c, Digits)
    ELSE IF c \in UpperSet THEN 64 + IndexOf(c, UpperAlpha)
    ELSE IF c \in LowerSet THEN 96 + IndexOf(c, LowerAlpha)
    ELSE IF c = "_" THEN 95
    ELSE IF c = "U+0130" THEN 304
    ELSE IF c = "U+0131" THEN 305
    ELSE IF c = "U+0307" THEN 775
    ELSE 32

\* a < b for str: lexicographic, by code point
RECURSIVE StrLess(_, _)
StrLess(a, b) ==
    IF b = <<>> THEN FALSE
    ELSE IF a = <<>> THEN TRUE
    ELSE IF Head(a) = Head(b) THEN StrLess(Tail(a), Tail(b))
    ELSE Ord(Head(a)) < Ord(Head(b))

\* sorted(list(S)) for a set of str
RECURSIVE sorted(_)
sorted(S) ==
    IF S = {} THEN <<>>
    ELSE LET m == CHOOSE x \in S : \A y \in S \ {x} : StrLess(x, y)
         IN <<m>> \o sorted(S \ {m})

\* the orders list(S) can have: the iteration order of a set of str follows
\* the per-process string hash
ListsOf(S) ==
    {p \in [1..Cardinality(S) -> S] : \A x \in S : \E i \in DOMAIN p : p[i] = x}

(***************************************************************************)
(* The regular expressions the program uses (module re), as items:         *)
(*   set   a character class with a quantifier "1", "?", "+" or "*"        *)
(*   any   "." with a quantifier                                           *)
(*   bol   "^" under re.MULTILINE                                          *)
(*   opt   an optional capture group "( ... )?"                            *)
(*   grp   a capture group "( ... )"                                       *)
(*   open / close   the bounds of capture group g                          *)
(* Matching is the backtracking search of re: greedy, first match wins.    *)
(***************************************************************************)
Item(k, s, q, g, inner) == [k |-> k, s |-> s, q |-> q, g |-> g, inner |-> inner]

WordChars == LowerSet \cup UpperSet \cup DigitSet \cup {"_", "U+0130", "U+0131"}
SpaceChars == {" ", "\t", "\n", "\r", "\f"}
QuoteChars == {"U+0060", "\""}

\* the characters a literal matches: itself, and under re.IGNORECASE every
\* character of the same case folding (for "I" and "i" these include U+0130
\* and U+0131)
LitSet(c, ignorecase) ==
    IF ~ignorecase THEN {c}
    ELSE {c} \cup SeqToSet(upperChar(c)) \cup SeqToSet(lowerChar(c))
             \cup (IF c \in {"I", "i"} THEN {"U+0130", "U+0131"} ELSE {})

Lit(str, ignorecase) ==
    [i \in 1..Len(str) |-> Item("set", LitSet(str[i], ignorecase), "1", 0, <<>>)]

Cls(s, q) == <<Item("set", s, q, 0, <<>>)>>
Dot(q) == <<Item("any", {}, q, 0, <<>>)>>
Bol == <<Item("bol", {}, "1", 0, <<>>)>>
Opt(g, inner) == <<Item("opt", {}, "?", g, inner)>>
Grp(g, inner) == <<Item("grp", {}, "1", g, inner)>>

ItemTakes(it, c) == IF it.k = "any" THEN c # "\n" ELSE c \in it.s

\* how many characters from pos on the item can take at most
Run(it, text, pos) ==
    CHOOSE n \in 0..(Len(text) - pos + 1) :
        /\ \A k \in 0..(n - 1) : ItemTakes(it, text[pos + k])
        /\ (pos + n <= Len(text) => ~ItemTakes(it, text[pos + n]))

Fail == [ok |-> FALSE, start |-> 0, end |-> 0, caps |-> <<>>]

RECURSIVE Match(_, _, _, _, _, _)
RECURSIVE TryRep(_, _, _, _, _, _, _, _)

\* the first way, in re's backtracking order, in which items match text at
\* pos; ne: an empty match is refused (sre's must_advance)
Match(items, text, pos, caps, start, ne) ==
    IF items = <<>>
    THEN IF ne /\ pos = start THEN Fail
         ELSE [ok |-> TRUE, start |-> start, end |-> pos, caps |-> caps]
    ELSE LET it == Head(items)
             rest == Tail(items)
         IN CASE it.k = "bol" ->
                    IF pos = 1 \/ text[pos - 1] = "\n"
                    THEN Match(rest, text, pos, caps, start, ne)
                    ELSE Fail
              [] it.k = "open" ->
                    Match(rest, text, pos, [caps EXCEPT ![it.g] = <<pos>>],
                          start, ne)
              [] it.k = "close" ->
                    Match(rest, text, pos,
                          [caps EXCEPT ![it.g] = <<caps[it.g][1], pos>>],
                          start, ne)
              [] it.k = "grp" ->
                    Match(<<Item("open", {}, "1", it.g, <<>>)>> \o it.inner
                              \o <<Item("close", {}, "1", it.g, <<>>)>> \o rest,
                          text, pos, caps, start, ne)
              [] it.k = "opt" ->
                    LET r == Match(<<Item("open", {}, "1", it.g, <<>>)>>
                                       \o it.inner
                                       \o <<Item("close", {}, "1", it.g, <<>>)>>
                                       \o rest,
                                   text, pos, caps, start, ne)
                    IN IF r.ok THEN r
                       ELSE Match(rest, text, pos, caps, start, ne)
              [] OTHER ->
                    LET avail == Run(it, text, pos)
                        hi == IF it.q \in {"1", "?"} /\ avail > 1 THEN 1
                              ELSE avail
                        lo == IF it.q \in {"1", "+"} THEN 1 ELSE 0
                    IN TryRep(rest, text, pos, caps, start, ne, hi, lo)

TryRep(rest, text, pos, caps, start, ne, n, lo) ==
    IF n < lo THEN Fail
    ELSE LET r == Match(rest, text, pos + n, caps, start, ne)
         IN IF r.ok THEN r
            ELSE TryRep(rest, text, pos, caps, start, ne, n - 1, lo)

NoCaps(ngroups) == [g \in 1..ngroups |-> <<>>]

\* re.finditer(pattern, text): the non-overlapping matches, left to right.
\* Positions are 1-based here; a match's start offset is start - 1.
MatchAt(items, ngroups, text, from, pos, must_advance) ==
    Match(items, text, pos, NoCaps(ngroups), pos, must_advance /\ pos = from)

RECURSIVE FindIterFrom(_, _, _, _, _)
FindIterFrom(items, ngroups, text, from, must_advance) ==
    LET hits == {pos \in from..(Len(text) + 1) :
                    MatchAt(items, ngroups, text, from, pos, must_advance).ok}
    IN IF hits = {} THEN <<>>
       ELSE LET first == CHOOSE pos \in hits : \A q \in hits : pos <= q
                r == MatchAt(items, ngroups, text, from, first, must_advance)
            IN <<r>> \o FindIterFrom(items, ngroups, text, r.end,
                                      r.end = r.start)

finditer(items, ngroups, text) == FindIterFrom(items, ngroups, text, 1, FALSE)

\* match.groups(): the text of every group, None for a group that took no part
groups(m, text) ==
    [g \in DOMAIN m.caps |->
        IF Len(m.caps[g]) = 2 THEN SubSeq(text, m.caps[g][1], m.caps[g][2] - 1)
        ELSE None]

\* match.group(0)
group0(m, text) == SubSeq(text, m.start, m.end - 1)

(***************************************************************************)
(* ConnectorIdentifier.extract_sql_objects                                 *)
(***************************************************************************)
Backtick == <<"U+0060">>
DotAboveI == <<"U+0130">>
DotlessI == <<"U+0131">>

\* [`\"]?\w+[`\"]?
Segment == Cls(QuoteChars, "?") \o Cls(WordChars, "+") \o Cls(QuoteChars, "?")

\* ([`\"]?\w+[`\"]?\.)?([`\"]?\w+[`\"]?\.)?([`\"]?\w+[`\"]?)
QualifiedName ==
    Opt(1, Segment \o Lit(Chars("."), TRUE))
        \o Opt(2, Segment \o Lit(Chars("."), TRUE))
        \o Grp(3, Segment)

\* the words of a pattern, \s+ after each, then the qualified name;
\* compiled with re.IGNORECASE | re.MULTILINE
SqlPattern(words) ==
    Concat([i \in 1..Len(words) |->
                Lit(Chars(words[i]), TRUE) \o Cls(SpaceChars, "+")])
        \o QualifiedName

table_patterns ==
    <<SqlPattern(<<"FROM">>), SqlPattern(<<"JOIN">>),
      SqlPattern(<<"INTO">>), SqlPattern(<<"UPDATE">>)>>

view_patterns ==
    <<SqlPattern(<<"CREATE", "VIEW">>),
      SqlPattern(<<"CREATE", "OR", "REPLACE", "VIEW">>)>>

\* content_upper = content.upper()
content_upper_asis(text) == text

content_upper(text) == upper(text)

\* obj_name.upper() in ['SELECT', 'AS', 'ON']
in_stoplist_no_as(obj_name) ==
    upper(obj_name) \in {Chars("SELECT"), Chars("ON")}

in_stoplist(obj_name) ==
    upper(obj_name) \in {Chars("SELECT"), Chars("AS"), Chars("ON")}

\* groups = [g for g in match.groups() if g]; groups[-1].strip('`"\' ')
obj_name_of(m, text) ==
    LET gs == SelectSeq(groups(m, text), LAMBDA g : g # None /\ g # <<>>)
    IN IF gs = <<>> THEN <<>>
       ELSE strip(gs[Len(gs)], {"U+0060", "\"", "'", " "})

\* the names one pattern adds to its set
names_of_pattern(pattern, text) ==
    LET ms == finditer(pattern, 3, text)
    IN {lower(obj_name_of(ms[i], text)) :
            i \in {j \in 1..Len(ms) :
                     /\ obj_name_of(ms[j], text) # <<>>
                     /\ ~in_stoplist(obj_name_of(ms[j], text))}}

\* the objects dict before it is returned: sets of names
sql_object_sets(text) ==
    LET up == content_upper(text)
    IN [tables |-> UNION {names_of_pattern(table_patterns[i], up) :
                             i \in 1..Len(table_patterns)},
        views |-> UNION {names_of_pattern(view_patterns[i], up) :
                            i \in 1..Len(view_patterns)},
        schemas |-> {}]

\* return {k: list(v) for k, v in objects.items()}: each list in one of the
\* orders the set can be iterated in
extract_sql_objects(text) ==
    LET objs == sql_object_sets(text)
    IN {[tables |-> t, views |-> v, schemas |-> <<>>] :
            t \in ListsOf(objs.tables), v \in ListsOf(objs.views)}

(***************************************************************************)
(* Inputs of extract_sql_objects: a keyword, white space, an identifier of *)
(* up to MaxSegs dot-separated segments and a tail; and whole texts.       *)
(***************************************************************************)
TableKeywords ==
    {Chars("FROM"), Chars("Join"), Chars("into"), Chars("UPDATE")}

SqlKeywords ==
    TableKeywords \cup
    {Chars("Create View"), Chars("create or replace view"),
     DotAboveI \o Chars("nto"), Chars("jo") \o DotlessI \o Chars("n"),
     Chars("SELECT")}

SqlGaps == {Chars(" "), Chars("\n\t")}

\* the segments before the last one, and the last one
SqlQualifiers == {Chars("Ab"), Backtick \o Chars("t1") \o Backtick, Chars("on")}

SqlSegments ==
    {Chars("Ab"), Backtick \o Chars("t1") \o Backtick, Chars("\"v\""),
     Chars("on"), Chars("Select"), Backtick \o Chars("As") \o Backtick,
     DotAboveI \o Chars("x"), DotlessI \o Chars("d")}

SqlTails == {<<>>, Chars(" o ON o.id")}

Scenario2 ==
    Chars("SELECT * FROM sales.orders o JOIN sales.customers c ON o.cid = c.id")

SqlWholeTexts ==
    {Scenario2,
     Chars("create view Rep.V1 as select * from ") \o Backtick \o Chars("db")
         \o Backtick \o Chars(".") \o Backtick \o Chars("T") \o Backtick
         \o Chars(" join on"),
     Chars("INSERT INTO a.b.c.d SELECT x FROM\nselect"),
     <<>>}

RECURSIVE SeqsUpTo(_, _)
SeqsUpTo(S, n) ==
    IF n = 0 THEN {<<>>}
    ELSE LET shorter == SeqsUpTo(S, n - 1)
         IN shorter \cup {Append(q, x) : q \in shorter, x \in S}

SqlInputs ==
    {[kw |-> k, gap |-> g, segs |-> sg, tail |-> t] :
        k \in SqlKeywords, g \in SqlGaps,
        sg \in {Append(q, x) : q \in SeqsUpTo(SqlQualifiers, MaxSegs - 1),
                                x \in SqlSegments},
        t \in SqlTails}
    \cup {[kw |-> <<>>, gap |-> <<>>, segs |-> <<>>, tail |-> t] :
            t \in SqlWholeTexts}

TextOf(p) == p.kw \o p.gap \o Join(Chars("."), p.segs) \o p.tail

Idle == <<>>

InitSql ==
    /\ pc = "sql_call"
    /\ parts \in SqlInputs
    /\ content = TextOf(parts)
    /\ sql_objects = None
    /\ file_info = Idle /\ file_type = None /\ detected = None
    /\ doc = Idle /\ config = Idle /\ connectors = Idle /\ file_types = Idle
    /\ files = Idle /\ idx = 0 /\ analyzed_files = Idle
    /\ connector_summary = Idle /\ import_summary = Idle
    /\ sql_objects_summary = Idle /\ metadata = None

\* a call of extract_sql_objects on content
ExtractSqlObjects ==
    /\ pc = "sql_call"
    /\ sql_objects' \in extract_sql_objects(content)
    /\ pc' = "sql_done"
    /\ UNCHANGED <<parts, content, file_info, file_type, detected>>
    /\ UNCHANGED catalogVars
    /\ UNCHANGED scanVars

\* the same call made again on the same text
ExtractSqlObjectsAgain ==
    /\ pc = "sql_done"
    /\ sql_objects' \in extract_sql_objects(content)
    /\ pc' = "sql_done"
    /\ UNCHANGED <<parts, content, file_info, file_type, detected>>
    /\ UNCHANGED catalogVars
    /\ UNCHANGED scanVars

NextSql == ExtractSqlObjects \/ ExtractSqlObjectsAgain

SpecSql == InitSql /\ [][NextSql]_vars

(***************************************************************************)
(* The pattern catalog.  A YAML scalar is a str or an int; a keyword is a  *)
(* scalar; a connection pattern is the source text of a regular expression *)
(* with what re makes of it: its items, or re.error when it is malformed.  *)
(***************************************************************************)
Str(chars) == [tag |-> "str", v |-> chars]
Num(n) == [tag |-> "int", v |-> <<n>>]

\* a connection pattern of the catalog: its source text, whether re compiles
\* it, the exception of the compilation otherwise (re.error for 'a(',
\* OverflowError for 'a{99999999999}'), and its items when it compiles
Regex(src, items) ==
    [src |-> Chars(src), valid |-> TRUE, error |-> "none", items |-> items]
BadRegex(src) ==
    [src |-> Chars(src), valid |-> FALSE, error |-> "re.error", items |-> <<>>]
OverflowRegex(src) ==
    [src |-> Chars(src), valid |-> FALSE, error |-> "OverflowError",
     items |-> <<>>]

ConnectorSpec(name, type, keywords, connection_patterns) ==
    [name |-> name, type |-> type, keywords |-> keywords,
     connection_patterns |-> connection_patterns]

(***************************************************************************)
(* ConnectorIdentifier.identify_connectors                                 *)
(***************************************************************************)
\* keyword in content: a TypeError unless keyword is a str
keyword_raises(keyword) == keyword.tag # "str"

keyword_in(keyword, text) == contains(keyword.v, text)

\* content[:match.start()].count('\n') + 1
line_number_to_end(m, text) == count(SubSeq(text, 1, m.end - 1), "\n") + 1

line_number(m, text) == count(SubSeq(text, 1, m.start - 1), "\n") + 1

\* content.count(keyword), for a keyword that is not empty
RECURSIVE occurrences(_, _)
occurrences(sub, s) ==
    IF Len(s) < Len(sub) THEN 0
    ELSE IF SubSeq(s, 1, Len(sub)) = sub
         THEN 1 + occurrences(sub, SubSeq(s, Len(sub) + 1, Len(s)))
         ELSE occurrences(sub, Tail(s))

\* an instance per occurrence of each keyword, not one per keyword
RECURSIVE keyword_instances_per_occurrence(_, _, _)
keyword_instances_per_occurrence(keywords, connector_type, text) ==
    IF keywords = <<>> THEN <<>>
    ELSE [i \in 1..occurrences(Head(keywords).v, text) |->
             [type |-> "keyword", pattern |-> Head(keywords).v,
              connector_type |-> connector_type]]
         \o keyword_instances_per_occurrence(Tail(keywords), connector_type,
                                             text)

\* the instances appended for the keywords, in catalog order
RECURSIVE keyword_instances(_, _, _)
keyword_instances(keywords, connector_type, text) ==
    IF keywords = <<>> THEN <<>>
    ELSE (IF keyword_in(Head(keywords), text)
          THEN <<[type |-> "keyword", pattern |-> Head(keywords).v,
                  connector_type |-> connector_type]>>
          ELSE <<>>)
         \o keyword_instances(Tail(keywords), connector_type, text)

\* re.finditer(pattern, content, re.MULTILINE); re.error (caught) when the
\* pattern is malformed, and then nothing is appended for it
pattern_matches(pattern, text) ==
    IF pattern.valid THEN finditer(pattern.items, 0, text) ELSE <<>>

\* the instances appended for one connection pattern, one per match
pattern_instances(pattern, connector_type, text) ==
    LET ms == pattern_matches(pattern, text)
    IN [i \in 1..Len(ms) |->
            [type |-> "connection", pattern |-> pattern.src,
             match |-> group0(ms[i], text),
             line_number |-> line_number(ms[i], text),
             connector_type |-> connector_type]]

RECURSIVE connection_instances(_, _, _)
connection_instances(patterns, connector_type, text) ==
    IF patterns = <<>> THEN <<>>
    ELSE pattern_instances(Head(patterns), connector_type, text)
         \o connection_instances(Tail(patterns), connector_type, text)

\* connection matches that repeat the text of a keyword instance are dropped
instances_of_deduplicated(spec, text) ==
    LET kws == keyword_instances(spec.keywords, spec.type, text)
    IN kws \o SelectSeq(connection_instances(spec.connection_patterns,
                                             spec.type, text),
                        LAMBDA x : \A i \in 1..Len(kws) :
                                       kws[i].pattern # x.match)

\* the instances list of one connector
instances_of(spec, text) ==
    keyword_instances(spec.keywords, spec.type, text)
        \o connection_instances(spec.connection_patterns, spec.type, text)

\* the detected dict (insertion-ordered): an entry per connector with
\* instances
RECURSIVE detect(_, _)
detect(catalog, text) ==
    IF catalog = <<>> THEN <<>>
    ELSE LET instances == instances_of(Head(catalog), text)
         IN (IF instances # <<>>
             THEN <<[name |-> Head(catalog).name, count |-> Len(instances),
                     type |-> Head(catalog).type, instances |-> instances]>>
             ELSE <<>>)
            \o detect(Tail(catalog), text)

\* re.finditer leaves the try block with an exception that except re.error
\* does not catch
pattern_raises(pattern) == pattern.error \notin {"none", "re.error"}

connectors_raise(catalog) ==
    \E i \in 1..Len(catalog) :
        \/ \E j \in 1..Len(catalog[i].keywords) :
               keyword_raises(catalog[i].keywords[j])
        \/ \E j \in 1..Len(catalog[i].connection_patterns) :
               pattern_raises(catalog[i].connection_patterns[j])

\* the call: it returns the detected dict, or an exception leaves it
identify_connectors(catalog, text) ==
    IF connectors_raise(catalog)
    THEN [raised |-> TRUE, value |-> <<>>]
    ELSE [raised |-> FALSE, value |-> detect(catalog, text)]

(***************************************************************************)
(* Inputs of identify_connectors: catalogs of up to two of these           *)
(* connectors, and every text of up to MaxLen characters over a, b and     *)
(* the line break.                                                         *)
(***************************************************************************)
ConnAlphabet == {"a", "b", "\n"}

ConnTexts == SeqsUpTo(ConnAlphabet, MaxLen)

ConnectorPool ==
    {ConnectorSpec("postgresql", "database", <<Str(Chars("a"))>>, <<>>),
     ConnectorSpec("kafka", "queue", <<Str(Chars("ab")), Str(Chars("b"))>>,
                   <<Regex("b\\n", Lit(Chars("b\n"), FALSE))>>),
     ConnectorSpec("s3", "storage", <<Str(Chars("a")), Str(Chars("a"))>>,
                   <<Regex("^a", Bol \o Lit(Chars("a"), FALSE)),
                     BadRegex("a("),
                     Regex("a\\s+b", Lit(Chars("a"), FALSE)
                                        \o Cls(SpaceChars, "+")
                                        \o Lit(Chars("b"), FALSE))>>),
     ConnectorSpec("hive", "database", <<>>,
                   <<Regex("b*", Cls({"b"}, "*"))>>),
     ConnectorSpec("mysql", "database", <<Num(3306)>>, <<>>),
     ConnectorSpec("redis", "cache", <<Str(Chars("b"))>>,
                   <<Regex("a+", Cls({"a"}, "+")),
                     OverflowRegex("a{99999999999}")>>)}

ConnCatalogs ==
    {<<c>> : c \in ConnectorPool}
    \cup {cat \in ConnectorPool \X ConnectorPool : cat[1] # cat[2]}

InitConn ==
    /\ pc = "conn_call"
    /\ connectors \in ConnCatalogs
    /\ content \in ConnTexts
    /\ detected = None
    /\ parts = Idle /\ sql_objects = None
    /\ file_info = Idle /\ file_type = None
    /\ doc = Idle /\ config = Idle /\ file_types = Idle
    /\ files = Idle /\ idx = 0 /\ analyzed_files = Idle
    /\ connector_summary = Idle /\ import_summary = Idle
    /\ sql_objects_summary = Idle /\ metadata = None

\* a call of identify_connectors on content that returns
IdentifyConnectors ==
    /\ pc = "conn_call"
    /\ ~identify_connectors(connectors, content).raised
    /\ detected' = identify_connectors(connectors, content).value
    /\ pc' = "conn_done"
    /\ UNCHANGED <<parts, content, file_info, file_type, sql_objects>>
    /\ UNCHANGED catalogVars
    /\ UNCHANGED scanVars

\* a call of identify_connectors on content that raises
IdentifyConnectorsRaises ==
    /\ pc = "conn_call"
    /\ identify_connectors(connectors, content).raised
    /\ pc' = "conn_raised"
    /\ UNCHANGED <<parts, content, file_info, file_type, sql_objects, detected>>
    /\ UNCHANGED catalogVars
    /\ UNCHANGED scanVars

NextConn == IdentifyConnectors \/ IdentifyConnectorsRaises

SpecConn == InitConn /\ [][NextConn]_vars

(***************************************************************************)
(* ConnectorIdentifier.identify_file_type                                  *)
(***************************************************************************)
FileTypeSpec(name, extensions, keywords) ==
    [name |-> name, extensions |-> extensions, keywords |-> keywords]

\* self.file_types.get(name, {}).get('keywords', [])
keywords_of_type(types, name) ==
    IF \E i \in 1..Len(types) : types[i].name = name
    THEN types[CHOOSE i \in 1..Len(types) : types[i].name = name].keywords
    ELSE <<>>

\* any(keyword in content for keyword in keywords)
any_keyword_in(keywords, text) ==
    \E j \in 1..Len(keywords) : keyword_in(keywords[j], text)

\* for file_type, props in self.file_types.items():
\*     if extension in props.get('extensions', []): return file_type
RECURSIVE match_by_extension(_, _)
match_by_extension(types, extension) ==
    IF types = <<>> THEN "unknown"
    ELSE IF extension \in Head(types).extensions THEN Head(types).name
    ELSE match_by_extension(Tail(types), extension)

identify_file_type(types, extension, text) ==
    IF any_keyword_in(keywords_of_type(types, "databricks_notebook"), text)
    THEN "databricks_notebook"
    ELSE IF extension = ".py"
    THEN IF any_keyword_in(keywords_of_type(types, "pyspark"), text)
         THEN "pyspark"
         ELSE "python"
    ELSE match_by_extension(types, extension)

(***************************************************************************)
(* Inputs of identify_file_type: catalogs of up to MaxTypes of these file  *)
(* types in any order, a supported extension and a text.                   *)
(***************************************************************************)
MaxTypes == 3

FileTypePool ==
    {FileTypeSpec("databricks_notebook", {".py", ".sql", ".scala"},
                  <<Str(Chars("# Databricks")), Str(Chars("dbutils"))>>),
     FileTypeSpec("pyspark", {".py", ".scala"}, <<Str(Chars("spark"))>>),
     FileTypeSpec("python", {".py"}, <<>>),
     FileTypeSpec("sql", {".sql", ".ddl"}, <<>>),
     FileTypeSpec("scala", {".scala"}, <<>>)}

NoRepeat(q) == \A i, j \in 1..Len(q) : i # j => q[i] # q[j]

FileTypeCatalogs == {q \in SeqsUpTo(FileTypePool, MaxTypes) : NoRepeat(q)}

TypeExtensions == {".py", ".sql", ".scala", ".json"}

TypeTexts ==
    {<<>>, Chars("# Databricks notebook source\nx = 1"),
     Chars("from pyspark.sql import SparkSession"),
     Chars("dbutils.fs.ls('/'); spark.sql('x')"), Chars("select 1")}

InitType ==
    /\ pc = "type_call"
    /\ file_types \in FileTypeCatalogs
    /\ file_info \in {[extension |-> e] : e \in TypeExtensions}
    /\ content \in TypeTexts
    /\ file_type = None
    /\ parts = Idle /\ sql_objects = None /\ detected = None
    /\ doc = Idle /\ config = Idle /\ connectors = Idle
    /\ files = Idle /\ idx = 0 /\ analyzed_files = Idle
    /\ connector_summary = Idle /\ import_summary = Idle
    /\ sql_objects_summary = Idle /\ metadata = None

\* a call of identify_file_type on file_info and content
IdentifyFileType ==
    /\ pc = "type_call"
    /\ file_type' = identify_file_type(file_types, file_info.extension, content)
    /\ pc' = "type_done"
    /\ UNCHANGED <<parts, content, file_info, detected, sql_objects>>
    /\ UNCHANGED catalogVars
    /\ UNCHANGED scanVars

NextType == IdentifyFileType

SpecType == InitType /\ [][NextType]_vars

(***************************************************************************)
(* Properties of identify_file_type, checked under SpecType.               *)
(***************************************************************************)
\* C10: first match wins: (1) the notebook type when the text holds one of
\* its keywords; (2) else for a .py file pyspark when the text holds one of
\* its keywords and python otherwise; (3) else the first of the remaining
\* file types, in catalog order, whose extensions hold the file's extension;
\* (4) else unknown
C10_PriorityOrder ==
    pc = "type_done" =>
        file_type =
            IF any_keyword_in(keywords_of_type(file_types, "databricks_notebook"),
                              content)
            THEN "databricks_notebook"
            ELSE IF file_info.extension = ".py"
            THEN IF any_keyword_in(keywords_of_type(file_types, "pyspark"),
                                   content)
                 THEN "pyspark"
                 ELSE "python"
            ELSE LET rem == SelectSeq(file_types,
                                LAMBDA t : t.name \notin {"databricks_notebook",
                                                          "pyspark"})
                     hits == {i \in 1..Len(rem) :
                                 file_info.extension \in rem[i].extensions}
                 IN IF hits = {} THEN "unknown"
                    ELSE rem[CHOOSE i \in hits : \A j \in hits : i <= j].name

\* what holds of the code: step (3) scans every configured file type, the
\* notebook and pyspark types included
C10_ScansEveryType ==
    (/\ pc = "type_done"
     /\ ~any_keyword_in(keywords_of_type(file_types, "databricks_notebook"),
                        content)
     /\ file_info.extension # ".py")
            => LET hits == {i \in 1..Len(file_types) :
                               file_info.extension \in file_types[i].extensions}
               IN file_type =
                      IF hits = {} THEN "unknown"
                      ELSE file_types[CHOOSE i \in hits :
                                          \A j \in hits : i <= j].name

(***************************************************************************)
(* ConnectorIdentifier.extract_imports                                     *)
(***************************************************************************)
\* [\w\.]+
ModulePath == Cls(WordChars \cup {"."}, "+")

\* r'^import\s+[\w\.]+' and r'^from\s+[\w\.]+\s+import\s+.*', no flags
import_patterns ==
    <<Bol \o Lit(Chars("import"), FALSE) \o Cls(SpaceChars, "+") \o ModulePath,
      Bol \o Lit(Chars("from"), FALSE) \o Cls(SpaceChars, "+") \o ModulePath
          \o Cls(SpaceChars, "+") \o Lit(Chars("import"), FALSE)
          \o Cls(SpaceChars, "+") \o Dot("*")>>

\* re.match(pattern, line)
re_match(pattern, line) == Match(pattern, line, 1, <<>>, 1, FALSE).ok

is_import(line) ==
    \E i \in 1..Len(import_patterns) : re_match(import_patterns[i], line)

RECURSIVE import_lines(_)
import_lines(lines) ==
    IF lines = <<>> THEN <<>>
    ELSE (IF is_import(strip(Head(lines), SpaceChars))
          THEN <<strip(Head(lines), SpaceChars)>>
          ELSE <<>>)
         \o import_lines(Tail(lines))

extract_imports(text, ftype) ==
    IF ftype \in {"python", "pyspark", "databricks_notebook"}
    THEN import_lines(split(text, "\n"))
    ELSE <<>>

(***************************************************************************)
(* ConnectorIdentifier.analyze_file                                        *)
(***************************************************************************)
\* len([l for l in lines if l.strip() and not l.strip().startswith('#')])
lines_of_code(text) ==
    Len(SelectSeq(split(text, "\n"),
                  LAMBDA l : /\ strip(l, SpaceChars) # <<>>
                             /\ Head(strip(l, SpaceChars)) # "#"))

\* 'pyspark' in file_type or 'spark' in content.lower()
has_spark(ftype, text) ==
    \/ contains(Chars("pyspark"), Chars(ftype))
    \/ contains(Chars("spark"), lower(text))

\* len(sql_objects.get('tables', [])) > 0 or file_type == 'sql'
has_sql(ftype, sql) == Len(sql.tables) > 0 \/ ftype = "sql"

\* the analyses the call can return (one per order of the SQL object lists),
\* or none when identify_connectors raises
analyze_file(types, catalog, info, text) ==
    LET ftype == identify_file_type(types, info.extension, text)
        conn == identify_connectors(catalog, text)
    IN IF conn.raised THEN {}
       ELSE {[file_type |-> ftype,
              lines_of_code |-> lines_of_code(text),
              total_lines |-> Len(split(text, "\n")),
              connectors |-> conn.value,
              imports |-> extract_imports(text, ftype),
              sql_objects |-> sql,
              has_spark |-> has_spark(ftype, text),
              has_sql |-> has_sql(ftype, sql)] :
                 sql \in extract_sql_objects(text)}

analyze_file_raises(types, catalog, info, text) ==
    identify_connectors(catalog, text).raised

(***************************************************************************)
(* FileUtils.read_file_content.  A file on disk is in one of these states: *)
(*   utf8     open() and the UTF-8 decoding succeed                        *)
(*   latin1   UTF-8 decoding fails, the retry in latin-1 succeeds          *)
(*   denied   open() raises an OSError (permissions, I/O)                  *)
(*   gone     UTF-8 decoding fails and every later open() raises an        *)
(*            OSError (the file became unreadable in between)              *)
(* text is what the successful decoding yields; errno_text is str(e).      *)
(***************************************************************************)
read_file_content(file) ==
    CASE file.disk \in {"utf8", "latin1"} ->
            [raised |-> FALSE, value |-> file.text]
      [] file.disk = "denied" ->
            [raised |-> FALSE,
             value |-> Chars("ERROR: Could not read file - ") \o file.errno_text]
      [] OTHER ->
            [raised |-> TRUE, value |-> <<>>]

(***************************************************************************)
(* ConnectorIdentifier._load_config and __init__.  What is at config_path: *)
(*   missing, unreadable   open() raises                                   *)
(*   invalid               yaml.safe_load raises a YAMLError               *)
(*   loaded                yaml.safe_load returns the document's value:    *)
(*                         null for an empty document, a sequence, or a    *)
(*                         mapping with the keys it holds                  *)
(***************************************************************************)
YamlNull == [t |-> "null", keys |-> {}, connectors |-> <<>>, file_types |-> <<>>]
YamlSeq == [t |-> "seq", keys |-> {}, connectors |-> <<>>, file_types |-> <<>>]
YamlMap(keys, conns, types) ==
    [t |-> "map", keys |-> keys, connectors |-> conns, file_types |-> types]

Document(state, value) == [state |-> state, value |-> value]

\* {'connectors': {}, 'file_types': {}}
empty_config == YamlMap({"connectors", "file_types"}, <<>>, <<>>)

\* yaml.safe_load(f), or the except branch's empty catalog
load_config(d) == IF d.state = "loaded" THEN d.value ELSE empty_config

\* self.config.get(key, {}): an AttributeError unless config is a mapping
config_get_raises(cfg) == cfg.t # "map"

config_get(cfg, key) == IF key \in cfg.keys THEN cfg[key] ELSE <<>>

(***************************************************************************)
(* MetadataScanner.scan: the per-file step and the final summary.          *)
(***************************************************************************)
FileInfo(file) ==
    [relative_path |-> file.relative_path, extension |-> file.extension,
     size_bytes |-> file.size_bytes]

\* what the try block makes of one file: the records {**file_info,
\* **analysis} it can append, or the error record of the except branch
analyzed_file_of(types, catalog, file) ==
    LET info == FileInfo(file)
        rd == read_file_content(file)
    IN IF rd.raised
       THEN {[relative_path |-> info.relative_path,
              extension |-> info.extension,
              size_bytes |-> info.size_bytes,
              error |-> "OSError", file_type |-> "error"]}
       ELSE IF analyze_file_raises(types, catalog, info, rd.value)
       THEN {[relative_path |-> info.relative_path,
              extension |-> info.extension,
              size_bytes |-> info.size_bytes,
              error |-> "TypeError", file_type |-> "error"]}
       ELSE {[relative_path |-> info.relative_path,
              extension |-> info.extension,
              size_bytes |-> info.size_bytes,
              file_type |-> an.file_type,
              lines_of_code |-> an.lines_of_code,
              total_lines |-> an.total_lines,
              connectors |-> an.connectors,
              imports |-> an.imports,
              sql_objects |-> an.sql_objects,
              has_spark |-> an.has_spark,
              has_sql |-> an.has_sql] :
                 an \in analyze_file(types, catalog, info, rd.value)}

\* f.get(key, default)
Get(f, key, default) == IF key \in DOMAIN f THEN f[key] ELSE default

IsError(f) == "error" \in DOMAIN f

\* connector_summary after one connector entry of a file's analysis
summary_set_instances(summary, path, data) ==
    IF \E i \in 1..Len(summary) : summary[i].name = data.name
    THEN [i \in 1..Len(summary) |->
             IF summary[i].name = data.name
             THEN [summary[i] EXCEPT
                      !.total_files = @ + 1,
                      !.total_instances = data.count,
                      !.files = Append(@, path)]
             ELSE summary[i]]
    ELSE Append(summary,
                [name |-> data.name, total_files |-> 1,
                 total_instances |-> data.count, type |-> data.type,
                 files |-> <<path>>])

\* every instance is counted as one more file
add_connector_file_per_instance(summary, path, data) ==
    IF \E i \in 1..Len(summary) : summary[i].name = data.name
    THEN [i \in 1..Len(summary) |->
             IF summary[i].name = data.name
             THEN [summary[i] EXCEPT
                      !.total_files = @ + data.count,
                      !.total_instances = @ + data.count,
                      !.files = Append(@, path)]
             ELSE summary[i]]
    ELSE Append(summary,
                [name |-> data.name, total_files |-> data.count,
                 total_instances |-> data.count, type |-> data.type,
                 files |-> <<path>>])

add_connector(summary, path, data) ==
    IF \E i \in 1..Len(summary) : summary[i].name = data.name
    THEN [i \in 1..Len(summary) |->
             IF summary[i].name = data.name
             THEN [summary[i] EXCEPT
                      !.total_files = @ + 1,
                      !.total_instances = @ + data.count,
                      !.files = Append(@, path)]
             ELSE summary[i]]
    ELSE Append(summary,
                [name |-> data.name, total_files |-> 1,
                 total_instances |-> data.count, type |-> data.type,
                 files |-> <<path>>])

RECURSIVE add_connectors(_, _, _)
add_connectors(summary, path, conns) ==
    IF conns = <<>> THEN summary
    ELSE add_connectors(add_connector(summary, path, Head(conns)), path,
                        Tail(conns))

\* import_summary[imp] = import_summary.get(imp, 0) + 1
add_import(summary, imp) ==
    IF \E i \in 1..Len(summary) : summary[i][1] = imp
    THEN [i \in 1..Len(summary) |->
             IF summary[i][1] = imp THEN <<imp, summary[i][2] + 1>>
             ELSE summary[i]]
    ELSE Append(summary, <<imp, 1>>)

\* for imp in analysis['imports']; the summary after each import is bound
\* as a value before the next one is added
RECURSIVE add_imports(_, _)
add_imports(summary, imps) ==
    IF imps = <<>> THEN summary
    ELSE CHOOSE r \in {add_imports(s, Tail(imps)) :
                          s \in {add_import(summary, Head(imps))}} : TRUE

\* the accumulators of the loop
Accumulators(analyzed, conns, imps, sql) ==
    [analyzed_files |-> analyzed, connector_summary |-> conns,
     import_summary |-> imps, sql_objects_summary |-> sql]

EmptyAccumulators ==
    Accumulators(<<>>, <<>>, <<>>, [tables |-> {}, views |-> {}])

\* the except branch forgets the record of the failed file
aggregate_dropping_errors(acc, f) ==
    IF IsError(f) THEN acc
    ELSE Accumulators(
             Append(acc.analyzed_files, f),
             add_connectors(acc.connector_summary, f.relative_path,
                            f.connectors),
             add_imports(acc.import_summary, f.imports),
             [tables |-> acc.sql_objects_summary.tables
                             \cup SeqToSet(f.sql_objects.tables),
              views |-> acc.sql_objects_summary.views
                            \cup SeqToSet(f.sql_objects.views)])

\* one iteration of the loop, given the record it appends
aggregate(acc, f) ==
    IF IsError(f)
    THEN [acc EXCEPT !.analyzed_files = Append(@, f)]
    ELSE Accumulators(
             Append(acc.analyzed_files, f),
             add_connectors(acc.connector_summary, f.relative_path,
                            f.connectors),
             add_imports(acc.import_summary, f.imports),
             [tables |-> acc.sql_objects_summary.tables
                             \cup SeqToSet(f.sql_objects.tables),
              views |-> acc.sql_objects_summary.views
                            \cup SeqToSet(f.sql_objects.views)])

\* sorted(import_summary.items(), key=lambda x: x[1], reverse=True): stable,
\* so equal counts keep their insertion order; the items left to sort are
\* bound as a value at every step
\* among equal counts the pair inserted last comes first
RECURSIVE sorted_by_count_ties_reversed(_)
sorted_by_count_ties_reversed(items) ==
    IF items = <<>> THEN <<>>
    ELSE LET i == CHOOSE k \in 1..Len(items) :
                      /\ \A j \in 1..Len(items) : items[j][2] <= items[k][2]
                      /\ \A j \in (k + 1)..Len(items) : items[j][2] < items[k][2]
         IN <<items[i]>>
            \o sorted_by_count_ties_reversed(
                   SubSeq(items, 1, i - 1) \o SubSeq(items, i + 1, Len(items)))

RECURSIVE sorted_by_count(_)
sorted_by_count(items) ==
    IF items = <<>> THEN <<>>
    ELSE LET i == CHOOSE k \in 1..Len(items) :
                      /\ \A j \in 1..Len(items) : items[j][2] <= items[k][2]
                      /\ \A j \in 1..(k - 1) : items[j][2] < items[k][2]
         IN <<items[i]>>
            \o CHOOSE r \in {sorted_by_count(rest) :
                                rest \in {SubSeq(items, 1, i - 1)
                                            \o SubSeq(items, i + 1,
                                                      Len(items))}} : TRUE

TopImports == 20

RECURSIVE Sum(_, _)
Sum(f, n) == IF n = 0 THEN 0 ELSE f[n] + Sum(f, n - 1)

\* FileUtils.get_project_stats
get_project_stats(fs) ==
    [total_files |-> Len(fs),
     total_size_bytes |-> Sum([i \in 1..Len(fs) |-> fs[i].size_bytes], Len(fs))]

\* the metadata dict that scan() returns
build_metadata(fs, acc) ==
    LET af == acc.analyzed_files
        stats == get_project_stats(fs)
    IN [project_statistics |->
            [total_files |-> stats.total_files,
             total_size_bytes |-> stats.total_size_bytes,
             total_loc |->
                 Sum([i \in 1..Len(af) |-> Get(af[i], "lines_of_code", 0)],
                     Len(af)),
             files_with_spark |->
                 Cardinality({i \in 1..Len(af) : Get(af[i], "has_spark", FALSE)}),
             files_with_sql |->
                 Cardinality({i \in 1..Len(af) : Get(af[i], "has_sql", FALSE)})],
        connector_summary |-> acc.connector_summary,
        import_summary |->
            [total_unique_imports |-> Len(acc.import_summary),
             top_imports |->
                 SubSeq(sorted_by_count(acc.import_summary), 1,
                        IF Len(acc.import_summary) < TopImports
                        THEN Len(acc.import_summary) ELSE TopImports)],
        sql_objects_summary |->
            [total_tables |-> Cardinality(acc.sql_objects_summary.tables),
             total_views |-> Cardinality(acc.sql_objects_summary.views),
             tables |-> sorted(acc.sql_objects_summary.tables),
             views |-> sorted(acc.sql_objects_summary.views)],
        files |-> af]

(***************************************************************************)
(* Inputs of a scan: what is at config_path, and the files the walker      *)
(* lists: up to MaxFiles of the files of this project tree, in any order.  *)
(***************************************************************************)
ScanConnectors ==
    <<ConnectorSpec("postgresql", "database", <<Str(Chars("psycopg2"))>>,
                    <<Regex("jdbc:\\w+", Lit(Chars("jdbc:"), FALSE)
                                           \o Cls(WordChars, "+"))>>),
      ConnectorSpec("s3", "storage",
                    <<Str(Chars("boto3")), Str(Chars("s3://"))>>, <<>>)>>

IllTypedConnectors ==
    <<ConnectorSpec("mysql", "database", <<Num(3306)>>, <<>>)>>

ScanFileTypes ==
    <<FileTypeSpec("python", {".py"}, <<>>),
      FileTypeSpec("pyspark", {".py"}, <<Str(Chars("pyspark"))>>),
      FileTypeSpec("sql", {".sql", ".ddl"}, <<>>),
      FileTypeSpec("databricks_notebook", {".py", ".sql"},
                   <<Str(Chars("# Databricks notebook source"))>>)>>

ScanDocuments ==
    {Document("missing", YamlNull), Document("unreadable", YamlNull),
     Document("invalid", YamlNull),
     Document("loaded", YamlNull), Document("loaded", YamlSeq),
     Document("loaded", YamlMap({}, <<>>, <<>>)),
     Document("loaded", YamlMap({"connectors", "file_types"}, ScanConnectors,
                                ScanFileTypes)),
     Document("loaded", YamlMap({"connectors", "file_types"},
                                IllTypedConnectors, ScanFileTypes))}

ProjectFile(path, extension, size, disk, text, errno_text) ==
    [relative_path |-> path, extension |-> extension, size_bytes |-> size,
     disk |-> disk, text |-> text, errno_text |-> errno_text]

ProjectTree ==
    {ProjectFile("etl/load.py", ".py", 90, "utf8",
         Chars("import os\nimport psycopg2\n# load\nq = 'select * from Sales.Orders o join crm.customers c'\n"),
         <<>>),
     ProjectFile("sql/report.sql", ".sql", 70, "utf8",
         Chars("CREATE VIEW rep.v1 AS\nSELECT a FROM orders\n-- jdbc:pg via psycopg2"),
         <<>>),
     ProjectFile("jobs/spark_job.py", ".py", 80, "latin1",
         Chars("from pyspark.sql import SparkSession\nimport os\ndf.write.save('s3://b')"),
         <<>>),
     ProjectFile("conf/spark/secret.py", ".py", 10, "denied", <<>>,
         Chars("[Errno 13] Permission denied: '/proj/conf/spark/secret.py'")),
     ProjectFile("data/raw.json", ".json", 20, "gone", <<>>, <<>>),
     ProjectFile("lib/deps.py", ".py", 200, "utf8",
         Chars("import a\nimport b\nimport c\nimport d\nimport e\nimport f\nimport g\nimport h\nimport i\nimport j\nimport b\nimport k\nimport l\nimport m\nimport n\nimport o\nimport p\nimport q\nimport r\nimport s\nimport t\nimport os"),
         <<>>)}

WalkerResults == {q \in SeqsUpTo(ProjectTree, MaxFiles) : NoRepeat(q)}

\* the catalogs the constructor can leave in self.file_types, self.connectors
ScanCatalogs ==
    {<<config_get(load_config(d), "file_types"),
       config_get(load_config(d), "connectors")>> :
         d \in {x \in ScanDocuments : ~config_get_raises(load_config(x))}}

\* analyzed_file_of, tabulated once for the catalogs and files of the scan
analyzed_file_table ==
    [cat \in ScanCatalogs |->
        [file \in ProjectTree |-> analyzed_file_of(cat[1], cat[2], file)]]

\* before __init__ has run there is no catalog, and before scan() returns
\* there is no summary
NotLoaded == [t |-> "unset", keys |-> {}, connectors |-> <<>>, file_types |-> <<>>]
NotReturned == [files |-> <<>>]

InitScan ==
    /\ pc = "init"
    /\ doc \in ScanDocuments
    /\ config = NotLoaded /\ connectors = <<>> /\ file_types = <<>>
    /\ files = <<>> /\ idx = 0 /\ analyzed_files = <<>>
    /\ connector_summary = <<>> /\ import_summary = <<>>
    /\ sql_objects_summary = [tables |-> {}, views |-> {}]
    /\ metadata = NotReturned
    /\ parts = Idle /\ content = Idle /\ file_info = Idle
    /\ file_type = None /\ detected = None /\ sql_objects = None

\* ConnectorIdentifier.__init__ returns
Construct ==
    /\ pc = "init"
    /\ ~config_get_raises(load_config(doc))
    /\ config' = load_config(doc)
    /\ connectors' = config_get(load_config(doc), "connectors")
    /\ file_types' = config_get(load_config(doc), "file_types")
    /\ pc' = "constructed"
    /\ UNCHANGED <<parts, doc, content, file_info, file_type, detected,
                   sql_objects>>
    /\ UNCHANGED scanVars

\* ConnectorIdentifier.__init__ is left by the AttributeError of
\* self.config.get
ConstructRaises ==
    /\ pc = "init"
    /\ config_get_raises(load_config(doc))
    /\ config' = load_config(doc)
    /\ pc' = "ctor_raised"
    /\ UNCHANGED <<parts, doc, connectors, file_types, content, file_info,
                   file_type, detected, sql_objects>>
    /\ UNCHANGED scanVars

\* scan(): FileUtils.scan_project lists the files, the accumulators are set up
StartScan ==
    /\ pc = "constructed"
    /\ files' \in WalkerResults
    /\ idx' = 0
    /\ analyzed_files' = EmptyAccumulators.analyzed_files
    /\ connector_summary' = EmptyAccumulators.connector_summary
    /\ import_summary' = EmptyAccumulators.import_summary
    /\ sql_objects_summary' = EmptyAccumulators.sql_objects_summary
    /\ pc' = "scanning"
    /\ UNCHANGED <<parts, content, file_info, file_type, detected, sql_objects,
                   metadata>>
    /\ UNCHANGED catalogVars

\* scan(): one iteration of the loop over files
ProcessFile ==
    /\ pc = "scanning"
    /\ idx < Len(files)
    /\ \E f \in analyzed_file_table[<<file_types, connectors>>][files[idx + 1]] :
          LET acc == aggregate(Accumulators(analyzed_files, connector_summary,
                                            import_summary,
                                            sql_objects_summary), f)
          IN /\ analyzed_files' = acc.analyzed_files
             /\ connector_summary' = acc.connector_summary
             /\ import_summary' = acc.import_summary
             /\ sql_objects_summary' = acc.sql_objects_summary
    /\ idx' = idx + 1
    /\ UNCHANGED <<pc, parts, content, file_info, file_type, detected,
                   sql_objects, files, metadata>>
    /\ UNCHANGED catalogVars

\* scan(): the loop is over, the metadata dict is built and returned
FinishScan ==
    /\ pc = "scanning"
    /\ idx = Len(files)
    /\ metadata' = build_metadata(files,
                       Accumulators(analyzed_files, connector_summary,
                                    import_summary, sql_objects_summary))
    /\ pc' = "scan_done"
    /\ UNCHANGED <<parts, content, file_info, file_type, detected, sql_objects,
                   files, idx, analyzed_files, connector_summary,
                   import_summary, sql_objects_summary>>
    /\ UNCHANGED catalogVars

NextScan ==
    Construct \/ ConstructRaises \/ StartScan \/ ProcessFile \/ FinishScan

SpecScan == InitScan /\ [][NextScan]_vars

\* the scan runs in one thread that takes its next step whenever it has one;
\* every step changes pc or idx
FairSpecScan == SpecScan /\ WF_<<pc, idx>>(NextScan)

(***************************************************************************)
(* Properties of identify_connectors, checked under SpecConn.              *)
(***************************************************************************)
\* the entries of the detected dict under a connector name
EntriesOf(name) == {i \in 1..Len(detected) : detected[i].name = name}

\* how many keyword instances with pattern k the detected dict holds under name
KeywordInstances(name, k) ==
    LET n[i \in 0..Len(detected)] ==
            IF i = 0 THEN 0
            ELSE n[i - 1] +
                 (IF detected[i].name = name
                  THEN Len(SelectSeq(detected[i].instances,
                                     LAMBDA x : x.type = "keyword"
                                                /\ x.pattern = k))
                  ELSE 0)
    IN n[Len(detected)]

\* how many times a connector's keywords list names k
TimesListed(spec, k) ==
    Cardinality({j \in 1..Len(spec.keywords) : spec.keywords[j].v = k})

\* C2 as stated: a text without keyword k of connector c yields no entry for
\* c; a text with k, however often, yields exactly one keyword instance with
\* pattern k under c
C2_NoEntryOrOneInstance ==
    pc = "conn_done" =>
        \A i \in 1..Len(connectors) :
            \A j \in 1..Len(connectors[i].keywords) :
                LET c == connectors[i]
                    k == c.keywords[j].v
                IN IF contains(k, content)
                   THEN KeywordInstances(c.name, k) = 1
                   ELSE EntriesOf(c.name) = {}

\* C2 amended: a text without keyword k of connector c yields no keyword
\* instance with pattern k under c, and no entry for c when no other keyword
\* of c is in the text and no connection pattern of c matches it; a text
\* with k, however often, yields one keyword instance with pattern k under c
\* for each time c's keywords list names k: exactly one when it names k once
C2_OneInstancePerListedKeyword ==
    pc = "conn_done" =>
        \A i \in 1..Len(connectors) :
            LET c == connectors[i]
            IN /\ \A j \in 1..Len(c.keywords) :
                      LET k == c.keywords[j].v
                      IN KeywordInstances(c.name, k) =
                             IF contains(k, content) THEN TimesListed(c, k)
                             ELSE 0
               /\ (EntriesOf(c.name) = {}) <=>
                      /\ \A j \in 1..Len(c.keywords) :
                             ~contains(c.keywords[j].v, content)
                      /\ \A j \in 1..Len(c.connection_patterns) :
                             c.connection_patterns[j].valid =>
                                 finditer(c.connection_patterns[j].items, 0,
                                          content) = <<>>

\* C2 witness: a keyword listed once occurs twice in the text, and the
\* connector's entry holds one instance
C2_Witness ==
    /\ pc = "conn_done"
    /\ Len(connectors) = 1
    /\ connectors[1].name = "postgresql"
    /\ content = Chars("a\na")
    /\ Len(detected) = 1
    /\ detected[1].count = 1

\* C3: the line number reported with a match of a connection pattern is one
\* plus the number of line breaks strictly before the match's start offset
C3_LineNumberOfMatchStart ==
    pc = "conn_done" =>
        \A e \in 1..Len(detected) :
            \A i \in 1..Len(connectors) :
                \A j \in 1..Len(connectors[i].connection_patterns) :
                    LET p == connectors[i].connection_patterns[j]
                        found == SelectSeq(detected[e].instances,
                                     LAMBDA x : x.type = "connection"
                                                /\ x.pattern = p.src)
                        ms == finditer(p.items, 0, content)
                    IN (connectors[i].name = detected[e].name /\ p.valid) =>
                          /\ Len(found) = Len(ms)
                          /\ \A n \in 1..Len(found) :
                                found[n].line_number =
                                    1 + Cardinality(
                                          {x \in 1..Len(content) :
                                              /\ x < ms[n].start
                                              /\ content[x] = "\n"})

\* C3 witness: a match that starts on the second line and spans a line break
C3_Witness ==
    /\ pc = "conn_done"
    /\ \E e \in 1..Len(detected) :
           \E n \in 1..Len(detected[e].instances) :
               LET x == detected[e].instances[n]
               IN /\ x.type = "connection"
                  /\ x.line_number = 2
                  /\ x.match = Chars("a\nb")

(***************************************************************************)
(* Properties of extract_sql_objects, checked under SpecSql.               *)
(***************************************************************************)
SetsOf(res) == [tables |-> SeqToSet(res.tables), views |-> SeqToSet(res.views)]

NameSets(text) ==
    [tables |-> sql_object_sets(text).tables,
     views |-> sql_object_sets(text).views]

StopNames == {Chars("select"), Chars("as"), Chars("on")}

\* C4: the table and view names extract_sql_objects returns never include
\* select, as or on
C4_StoplistNeverExtracted ==
    pc = "sql_done" =>
        (SeqToSet(sql_objects.tables) \cup SeqToSet(sql_objects.views))
            \cap StopNames = {}

\* C4 witness: FROM `As` was matched, and nothing was extracted from it
C4_Witness ==
    /\ pc = "sql_done"
    /\ parts.kw = Chars("FROM")
    /\ parts.segs = <<Backtick \o Chars("As") \o Backtick>>
    /\ parts.tail = <<>>
    /\ sql_objects.tables = <<>>

\* C5 as stated: the mixed-case, lower-case and all-caps spellings of every
\* text give the same sets of table and view names
C5_AllSpellingsAgree ==
    pc = "sql_done" =>
        /\ SetsOf(sql_objects) = NameSets(upper(content))
        /\ SetsOf(sql_objects) = NameSets(lower(content))

\* C5 amended: a second run on the same text gives the same sets; the text
\* and its all-caps spelling give the same sets; and so does its lower-case
\* spelling whenever that upper-cases to the text's own upper case (as every
\* ASCII text does)
C5_SpellingsAgreeWhenRoundTrip ==
    /\ [](pc = "sql_done" =>
            /\ SetsOf(sql_objects) = NameSets(upper(content))
            /\ (upper(lower(content)) = upper(content)
                    => SetsOf(sql_objects) = NameSets(lower(content))))
    /\ [][pc = "sql_done" => SetsOf(sql_objects') = SetsOf(sql_objects)]_vars

\* C5 witness: a mixed-case text that round-trips, with a name extracted
C5_Witness ==
    /\ pc = "sql_done"
    /\ content # upper(content)
    /\ content # lower(content)
    /\ upper(lower(content)) = upper(content)
    /\ sql_objects.tables # <<>>

\* an identifier segment: ASCII letters, digits and underscores (quoted or
\* not) that spell none of the SQL keywords of the stoplist
IsName(seg) ==
    /\ SeqToSet(strip(seg, QuoteChars)) \subseteq WordChars \ {"U+0130", "U+0131"}
    /\ lower(strip(seg, QuoteChars)) \notin StopNames

\* C7: after FROM, JOIN, INTO or UPDATE an identifier of one to three
\* segments adds exactly its last segment, without quotes and lower-cased, to
\* the tables; and scenario 2's text yields the tables ["customers", "orders"],
\* with no on or select entry and no schema or alias name
C7_LastSegmentAndScenario2 ==
    pc = "sql_done" =>
        /\ (/\ parts.kw \in TableKeywords
            /\ Len(parts.segs) \in 1..3
            /\ IsName(parts.segs[Len(parts.segs)]))
                => SeqToSet(sql_objects.tables)
                       = {lower(strip(parts.segs[Len(parts.segs)], QuoteChars))}
        /\ content = Scenario2
                => sql_objects.tables = <<Chars("customers"), Chars("orders")>>

\* what holds of the code: the same with scenario 2's tables taken as a set,
\* the list being in whichever order the set is iterated
C7_LastSegmentAsSet ==
    pc = "sql_done" =>
        /\ (/\ parts.kw \in TableKeywords
            /\ Len(parts.segs) \in 1..3
            /\ IsName(parts.segs[Len(parts.segs)]))
                => SeqToSet(sql_objects.tables)
                       = {lower(strip(parts.segs[Len(parts.segs)], QuoteChars))}
        /\ content = Scenario2
                => SeqToSet(sql_objects.tables)
                       = {Chars("customers"), Chars("orders")}

(***************************************************************************)
(* Properties of the scan, checked under SpecScan and FairSpecScan.        *)
(***************************************************************************)
\* the loop of scan() run over a given sequence of per-file records
Reduce(records) ==
    LET acc[i \in 0..Len(records)] ==
            IF i = 0 THEN EmptyAccumulators
            ELSE aggregate(acc[i - 1], records[i])
    IN acc[Len(records)]

\* the totals and sets of a summary: its counts, its connectors' counts and
\* its sorted table and view lists
Totals(m) ==
    [total_loc |-> m.project_statistics.total_loc,
     files_with_spark |-> m.project_statistics.files_with_spark,
     files_with_sql |-> m.project_statistics.files_with_sql,
     connectors |->
         {<<m.connector_summary[i].name, m.connector_summary[i].total_files,
            m.connector_summary[i].total_instances>> :
              i \in 1..Len(m.connector_summary)},
     total_unique_imports |-> m.import_summary.total_unique_imports,
     tables |-> m.sql_objects_summary.tables,
     views |-> m.sql_objects_summary.views]

\* a discovered file that read_file_content cannot read at all
Unreadable(file) == file.disk \in {"denied", "gone"}

\* C1 as stated: a discovered file that cannot be read at all is in the
\* summary's files with file_type "error" and an error message, and the
\* summary's totals are those of the scan without that file
C1_UnreadableFileIsErrorRecord ==
    pc = "scan_done" =>
        \A i \in 1..Len(files) :
            Unreadable(files[i]) =>
                /\ metadata.files[i].relative_path = files[i].relative_path
                /\ metadata.files[i].file_type = "error"
                /\ "error" \in DOMAIN metadata.files[i]
                /\ metadata.project_statistics.total_files = Len(files)
                /\ Totals(metadata) =
                       Totals(build_metadata(files,
                                  Reduce(SubSeq(metadata.files, 1, i - 1)
                                         \o SubSeq(metadata.files, i + 1,
                                                   Len(metadata.files)))))

\* the summary that the loop builds from the records of the finished scan
\* taken in the order p
Reordered(p) ==
    build_metadata(files,
        Reduce([i \in 1..Len(analyzed_files) |-> analyzed_files[p[i]]]))

\* C6 as stated: reducing the per-file records of a scan in any order yields
\* the same total_loc, files_with_spark, files_with_sql, per-connector
\* total_files and total_instances, total_unique_imports and sorted table
\* and view lists, and the same top imports but for the order of the pairs
C6_OnlyTieOrderDiffers ==
    pc = "scan_done" =>
        \A p \in Permutations(1..Len(analyzed_files)) :
            /\ Totals(Reordered(p)) = Totals(metadata)
            /\ SeqToSet(Reordered(p).import_summary.top_imports)
                   = SeqToSet(metadata.import_summary.top_imports)

\* C6 amended: reducing the per-file records of a scan in any order yields
\* the same total_loc, files_with_spark, files_with_sql, per-connector
\* total_files and total_instances, total_unique_imports and sorted table
\* and view lists; the top imports are the same pairs in another order
\* when there are at most 20 distinct imports, and otherwise the pairs of
\* the lowest kept count may be other ones
C6_ReductionIndependentOfOrder ==
    pc = "scan_done" =>
        \A p \in Permutations(1..Len(analyzed_files)) :
            /\ Totals(Reordered(p)) = Totals(metadata)
            /\ LET top == metadata.import_summary.top_imports
                   other == Reordered(p).import_summary.top_imports
               IN /\ Len(other) = Len(top)
                  /\ metadata.import_summary.total_unique_imports <= 20
                         => SeqToSet(other) = SeqToSet(top)
                  /\ \A x \in SeqToSet(top) \ SeqToSet(other) :
                         /\ Len(top) = 20
                         /\ x[2] = top[20][2]
                         /\ other[20][2] = top[20][2]

\* C6 witness: a finished scan of three files, two of which add to the same
\* connector with different counts, with more than 20 distinct imports, of
\* which another order of the files keeps other ones
C6_Witness ==
    /\ pc = "scan_done"
    /\ Len(analyzed_files) = 3
    /\ \E i \in 1..Len(metadata.connector_summary) :
           /\ metadata.connector_summary[i].total_files = 2
           /\ metadata.connector_summary[i].total_instances = 3
    /\ metadata.project_statistics.total_loc > 0
    /\ metadata.sql_objects_summary.total_tables >= 2
    /\ metadata.import_summary.total_unique_imports > 20
    /\ \E p \in Permutations(1..3) :
           SeqToSet(Reordered(p).import_summary.top_imports)
               # SeqToSet(metadata.import_summary.top_imports)

\* what is at config_path is no mapping that yaml.safe_load returns
LoadFails(d) == d.state # "loaded" \/ d.value.t # "map"

\* C8 as stated: when the catalog fails to load or parse (missing,
\* unreadable, invalid or empty document, or a document that is no mapping),
\* the constructor returns with an empty catalog, and a scan classifies every
\* file and detects no connector
C8_EmptyCatalogOnLoadFailure ==
    LoadFails(doc) =>
        /\ pc # "ctor_raised"
        /\ pc # "init" => connectors = <<>> /\ file_types = <<>>
        /\ pc = "scan_done" =>
              /\ metadata.connector_summary = <<>>
              /\ \A i \in 1..Len(metadata.files) :
                     Get(metadata.files[i], "connectors", <<>>) = <<>>

\* the records appended so far are those of the first idx discovered files
OneRecordPerFile(records) ==
    \A i \in 1..Len(records) :
        /\ records[i].relative_path = files[i].relative_path
        /\ records[i].extension = files[i].extension
        /\ records[i].size_bytes = files[i].size_bytes

\* C9: once scan() has the walker's list it reaches its return; at every
\* point of the loop there is exactly one record per file processed so far,
\* in the walker's order, whether or not earlier files failed; the returned
\* files list has one record per discovered file and its length is
\* project_statistics.total_files
C9_ScanTerminatesOneRecordPerFile ==
    /\ [](pc = "scanning" =>
              /\ Len(analyzed_files) = idx
              /\ idx <= Len(files)
              /\ OneRecordPerFile(analyzed_files))
    /\ [](pc = "scan_done" =>
              /\ metadata.files = analyzed_files
              /\ Len(metadata.files) = Len(files)
              /\ Len(metadata.files) = metadata.project_statistics.total_files
              /\ OneRecordPerFile(metadata.files))
    /\ (pc = "scanning") ~> (pc = "scan_done")

\* C9 witness: a returned summary of three files in which the first failed,
\* and the second and the third were analysed after it
C9_Witness ==
    /\ pc = "scan_done"
    /\ Len(metadata.files) = 3
    /\ IsError(metadata.files[1])
    /\ ~IsError(metadata.files[2])
    /\ metadata.files[2].lines_of_code > 0
    /\ ~IsError(metadata.files[3])

(***************************************************************************)
(* Properties of identify_connectors on catalogs with patterns that do not *)
(* compile, and of the entries it returns; checked under SpecConn.         *)
(***************************************************************************)
\* a connection pattern that re does not compile
Malformed(pattern) == ~pattern.valid

\* the catalog as if its malformed patterns were absent from it
WithoutMalformed(catalog) ==
    [i \in 1..Len(catalog) |->
        [catalog[i] EXCEPT
            !.connection_patterns = SelectSeq(@, LAMBDA p : ~Malformed(p))]]

\* C11 as stated: with a malformed connection pattern in a catalog of
\* well-typed keywords, identify_connectors returns normally, and returns
\* what it returns for the catalog without the malformed patterns
C11_MalformedPatternSkipped ==
    (/\ \E i \in 1..Len(connectors) :
            \E j \in 1..Len(connectors[i].connection_patterns) :
                Malformed(connectors[i].connection_patterns[j])
     /\ \A i \in 1..Len(connectors) :
            \A j \in 1..Len(connectors[i].keywords) :
                ~keyword_raises(connectors[i].keywords[j]))
        => /\ pc # "conn_raised"
           /\ pc = "conn_done" =>
                  detected = detect(WithoutMalformed(connectors), content)

\* what holds of the code: a pattern whose compilation raises re.error is
\* skipped, whenever the call returns
C11_ReErrorPatternSkipped ==
    pc = "conn_done" =>
        detected = detect(WithoutMalformed(connectors), content)

\* the number of keywords of a connector that the text holds, and the number
\* of matches of its connection patterns in the text
KeywordHits(c, text) ==
    Cardinality({j \in 1..Len(c.keywords) : contains(c.keywords[j].v, text)})

PatternHits(c, text) ==
    Sum([j \in 1..Len(c.connection_patterns) |->
            IF c.connection_patterns[j].valid
            THEN Len(finditer(c.connection_patterns[j].items, 0, text))
            ELSE 0],
        Len(c.connection_patterns))

\* C14: the mapping identify_connectors returns has one entry for each
\* connector with at least one instance and none for the others; each entry's
\* count is at least 1 and is the length of its instances list, which is the
\* number of keyword instances plus the number of connection-pattern
\* matches, none of them merged
C14_CountIsNumberOfInstances ==
    pc = "conn_done" =>
        /\ \A e \in 1..Len(detected) :
               /\ detected[e].count >= 1
               /\ detected[e].count = Len(detected[e].instances)
               /\ \A f \in 1..Len(detected) :
                      detected[f].name = detected[e].name => f = e
               /\ \E i \in 1..Len(connectors) :
                      connectors[i].name = detected[e].name
        /\ \A i \in 1..Len(connectors) :
               LET c == connectors[i]
                   n == KeywordHits(c, content) + PatternHits(c, content)
               IN /\ n = 0 => EntriesOf(c.name) = {}
                  /\ n > 0 =>
                        \E e \in EntriesOf(c.name) :
                            /\ detected[e].count = n
                            /\ Len(SelectSeq(detected[e].instances,
                                     LAMBDA x : x.type = "keyword"))
                                   = KeywordHits(c, content)
                            /\ Len(SelectSeq(detected[e].instances,
                                     LAMBDA x : x.type = "connection"))
                                   = PatternHits(c, content)

\* C14 witness: a returned mapping of a two-connector catalog with an entry
\* that holds keyword instances and a pattern match of the same text, all
\* counted, and no entry for the other connector
C14_Witness ==
    /\ pc = "conn_done"
    /\ Len(connectors) = 2
    /\ Len(detected) = 1
    /\ detected[1].count = 3
    /\ \E x \in 1..3 : \E y \in 1..3 :
           /\ detected[1].instances[x].type = "keyword"
           /\ detected[1].instances[y].type = "connection"
           /\ detected[1].instances[y].match = detected[1].instances[x].pattern

(***************************************************************************)
(* Properties of the accumulators of the scan, checked under SpecScan.     *)
(***************************************************************************)
\* the hit count of a connector in a per-file record: 0 for an error record
\* and for an analysis without an entry for the connector
HitCount(record, name) ==
    LET conns == Get(record, "connectors", <<>>)
        hits == {e \in 1..Len(conns) : conns[e].name = name}
    IN IF hits = {} THEN 0 ELSE conns[CHOOSE e \in hits : TRUE].count

\* the records processed so far that have a hit for a connector, in
\* processing order
HitRecords(name) ==
    SelectSeq(analyzed_files, LAMBDA r : HitCount(r, name) > 0)

\* the connector names that the records processed so far hold
NamesHit ==
    UNION {{Get(analyzed_files[i], "connectors", <<>>)[e].name :
                e \in 1..Len(Get(analyzed_files[i], "connectors", <<>>))} :
           i \in 1..Len(analyzed_files)}

\* C13: after any number of files is reduced, connector_summary has exactly
\* one entry for each connector with a hit in a processed file and none for
\* the others; the entry's total_files is the number of files with a hit,
\* its total_instances the sum of their hit counts, and its files their
\* relative paths in processing order, one per file, so len(files) =
\* total_files <= total_instances
C13_ConnectorSummaryTotals ==
    pc \in {"scanning", "scan_done"} =>
        /\ {connector_summary[i].name : i \in 1..Len(connector_summary)}
               = NamesHit
        /\ \A i \in 1..Len(connector_summary) :
               LET s == connector_summary[i]
                   hit == HitRecords(s.name)
               IN /\ \A j \in 1..Len(connector_summary) :
                         connector_summary[j].name = s.name => j = i
                  /\ s.total_files = Len(hit)
                  /\ s.total_instances =
                         Sum([k \in 1..Len(hit) |-> HitCount(hit[k], s.name)],
                             Len(hit))
                  /\ s.files = [k \in 1..Len(hit) |-> hit[k].relative_path]
                  /\ \A k, l \in 1..Len(s.files) :
                         s.files[k] = s.files[l] => k = l
                  /\ Len(s.files) = s.total_files
                  /\ s.total_instances >= s.total_files
                  /\ s.total_files >= 1
        /\ pc = "scan_done" => metadata.connector_summary = connector_summary

\* C13 witness: a returned summary of three files with two connector
\* entries, one of them fed by two files with three instances in all
C13_Witness ==
    /\ pc = "scan_done"
    /\ Len(analyzed_files) = 3
    /\ Len(metadata.connector_summary) = 2
    /\ \E i \in 1..2 :
           /\ metadata.connector_summary[i].total_files = 2
           /\ metadata.connector_summary[i].total_instances = 3
           /\ Len(metadata.connector_summary[i].files) = 2
    /\ \E i \in 1..2 : metadata.connector_summary[i].total_files = 1

\* the import strings of the records of a summary, in the order in which the
\* scan met them: file after file, line after line
ImportsMet(records) ==
    LET met[i \in 0..Len(records)] ==
            IF i = 0 THEN <<>>
            ELSE met[i - 1] \o Get(records[i], "imports", <<>>)
    IN met[Len(records)]

\* how often the scan met an import string, and where it met it first
Occurrences(all, imp) == Cardinality({k \in 1..Len(all) : all[k] = imp})

FirstMet(all, imp) ==
    CHOOSE k \in 1..Len(all) :
        all[k] = imp /\ \A l \in 1..(k - 1) : all[l] # imp

\* a ranks before b: a higher count, or the same count and met earlier
RanksBefore(all, a, b) ==
    \/ Occurrences(all, a) > Occurrences(all, b)
    \/ /\ Occurrences(all, a) = Occurrences(all, b)
       /\ FirstMet(all, a) < FirstMet(all, b)

\* C12: top_imports holds (import, count) pairs, count being the number of
\* occurrences of the import string over all analysed files; the pairs are
\* in descending order of count, pairs of equal count in the order in which
\* their strings were first met; only the 20 first of this order are kept;
\* total_unique_imports is the number of distinct strings before truncation
C12_TopImportsRanking ==
    pc = "scan_done" =>
        LET all == ImportsMet(metadata.files)
            distinct == SeqToSet(all)
            top == metadata.import_summary.top_imports
            kept == {top[i][1] : i \in 1..Len(top)}
        IN /\ metadata.import_summary.total_unique_imports
                  = Cardinality(distinct)
           /\ Len(top) = IF Cardinality(distinct) < 20
                         THEN Cardinality(distinct) ELSE 20
           /\ kept \subseteq distinct
           /\ \A i \in 1..Len(top) :
                  top[i][2] = Occurrences(all, top[i][1])
           /\ \A i, j \in 1..Len(top) :
                  i < j => RanksBefore(all, top[i][1], top[j][1])
           /\ \A imp \in distinct \ kept :
                  \A i \in 1..Len(top) : RanksBefore(all, top[i][1], imp)

\* C12 witness: a returned summary with more than 20 distinct imports, of
\* which one was met in three files, one twice in one file, and pairs of
\* count 1 are both kept and dropped
C12_Witness ==
    /\ pc = "scan_done"
    /\ metadata.import_summary.total_unique_imports > 20
    /\ Len(metadata.import_summary.top_imports) = 20
    /\ metadata.import_summary.top_imports[1][2] = 3
    /\ metadata.import_summary.top_imports[2][2] = 2
    /\ metadata.import_summary.top_imports[3][2] = 1
    /\ metadata.import_summary.top_imports[20][2] = 1

====
